---- MODULE Spec2Model ----
(***************************************************************************)
(* Model of loom's kind kernel (src/src/kind_kernel.cc): the packed store  *)
(* of kinds (cross_cat_.kinds), the feature -> kind map                    *)
(* (cross_cat_.featureid_to_kindid), the row assignment table              *)
(* (assignments_), and the kernel's operations.                            *)
(*                                                                         *)
(* Packed vectors are functions over 0..n-1, so that kind indices are the  *)
(* indices of the C++ code.                                                *)
(*                                                                         *)
(* Spec follows a kernel's life one call at a time, SpecOps the store      *)
(* operations one call at a time, SpecSteps the calls one statement at a   *)
(* time, SpecStream a protobuf stream file (src/src/protobuf_stream.hpp)   *)
(* written and read back, and SpecSeek reads and seeks on such a file.     *)
(***************************************************************************)
EXTENDS Integers, FiniteSets, Sequences, TLC

\* ------------------------------------------------------------------ bounds
NumFeatures == 3
MaxEmptyKindCount == 2
MaxInitKinds == 4
MaxKinds == 4
MaxGridPriorSize == 1
MaxRecords == 2
MaxRecordLen == 2
MaxByte == 1
RowCount == 2
LifecycleRows == 0
EmptyGroupCount == 1

Features == 0 .. (NumFeatures - 1)

VARIABLES
    pc,                  \* "new" | "ready" | "running" | "returned" |
                         \* "destroyed" | "aborted"; "absent": no kernel
    iterations,          \* iterations_
    empty_kind_count,    \* empty_kind_count_
    kinds,               \* cross_cat_.kinds: index -> [featureids, counts]
    featureid_to_kindid, \* cross_cat_.featureid_to_kindid
    assignments,         \* assignments_: kind index -> one group id per row
    row_count,           \* assignments_.row_count()
    total_count,         \* total_count_
    change_count,        \* change_count_
    birth_count,         \* birth_count_
    death_count,         \* death_count_
    old_kindids,         \* try_run's local old_kindids (until it returns)
    new_kindids,         \* try_run's local new_kindids (until it returns)
    ret,                 \* value returned by the last try_run, else "none"
    call,                \* the operation that ran last and its arguments
    pre,                 \* the store as it was when that operation was entered
    step,                \* where a call followed statement by statement stands
    stream               \* a protobuf stream file, its writer and its reader

vars == <<pc, iterations, empty_kind_count, kinds, featureid_to_kindid,
          assignments, row_count, total_count, change_count, birth_count, death_count,
          old_kindids, new_kindids, ret, call, pre, step, stream>>

\* ------------------------------------------------------- packed containers
Size(v) == Cardinality(DOMAIN v)

\* packed_add: append at the next dense index
PackedAdd(v, x) ==
    [i \in 0 .. Size(v) |-> IF i < Size(v) THEN v[i] ELSE x]

\* packed_remove: move the last element into pos, then drop the last slot
PackedRemove(v, pos) ==
    [i \in 0 .. (Size(v) - 2) |-> IF i = pos THEN v[Size(v) - 1] ELSE v[i]]

\* -------------------------------------------------------------- the store
\* The three collaborating collections, plus ok = FALSE once a fatal
\* assertion has fired (the store is then left as it was at that point).
Store(k, a, m, r) ==
    [kinds |-> k, assignments |-> a, featureid_to_kindid |-> m,
     row_count |-> r, ok |-> TRUE]

Current == Store(kinds, assignments, featureid_to_kindid, row_count)

Fail(st) == [st EXCEPT !.ok = FALSE]

\* CrossCat::validate, as far as the bookkeeping goes: map and owned sets agree
CrossCatValidate(st) ==
    /\ \A f \in Features :
          /\ st.featureid_to_kindid[f] \in DOMAIN st.kinds
          /\ f \in st.kinds[st.featureid_to_kindid[f]].featureids
    /\ \A k \in DOMAIN st.kinds : \A f \in st.kinds[k].featureids :
          st.featureid_to_kindid[f] = k

\* Assignments::validate: every kind's entry has one group id per row
AssignmentsValidate(st) ==
    \A k \in DOMAIN st.assignments : Len(st.assignments[k]) = st.row_count

Validated(st) ==
    IF st.ok /\ CrossCatValidate(st) /\ AssignmentsValidate(st)
    THEN st ELSE Fail(st)

\* ------------------------------------------------------ add_featureless_kind
\* Clustering::sample_assignments(rows): one group id per row.  Of the
\* clusterings the sampler can draw, the two extreme ones: all rows in one
\* group, and every row in a group of its own.
SampleAssignments(rows) ==
    {[i \in 1 .. rows |-> 0], [i \in 1 .. rows |-> i - 1]}

\* group_count and counts of add_featureless_kind
GroupCounts(assignment_vector) ==
    LET used == {1 + assignment_vector[i] : i \in DOMAIN assignment_vector}
        group_count ==
            (IF used = {} THEN 0
             ELSE CHOOSE g \in used : \A h \in used : h <= g) + EmptyGroupCount
    IN [g \in 0 .. (group_count - 1) |->
            Cardinality({i \in DOMAIN assignment_vector :
                            assignment_vector[i] = g})]

\* Mixture::count_rows
CountRows(counts) ==
    LET RECURSIVE Sum(_)
        Sum(g) == IF g < 0 THEN 0 ELSE counts[g] + Sum(g - 1)
    IN Sum(Size(counts) - 1)

AddFeaturelessKind(st, assignment_vector) ==
    [st EXCEPT
        !.kinds = PackedAdd(@, [featureids |-> {},
                                counts |-> GroupCounts(assignment_vector)]),
        !.assignments = PackedAdd(@, assignment_vector)]

\* --------------------------------------------------- remove_featureless_kind
\* variant: the map is not repointed to the relocated kind
RemoveFeaturelessKindNoRepoint(st, kindid) ==
    IF st.kinds[kindid].featureids # {}
    THEN Fail(st)
    ELSE [st EXCEPT
            !.kinds = PackedRemove(@, kindid),
            !.assignments = PackedRemove(@, kindid)]

\* variant: no check that the kind is empty
RemoveFeaturelessKindUnchecked(st, kindid) ==
    LET ks == PackedRemove(st.kinds, kindid)
    IN [st EXCEPT
           !.kinds = ks,
           !.assignments = PackedRemove(@, kindid),
           !.featureid_to_kindid =
               IF kindid < Size(ks)
               THEN [f \in Features |->
                       IF f \in ks[kindid].featureids THEN kindid ELSE @[f]]
               ELSE @]

\* variant: the table drops its last entry instead of the entry at kindid
RemoveFeaturelessKindPopsTable(st, kindid) ==
    IF st.kinds[kindid].featureids # {}
    THEN Fail(st)
    ELSE LET ks == PackedRemove(st.kinds, kindid)
         IN [st EXCEPT
                !.kinds = ks,
                !.assignments = [k \in 0 .. (Size(@) - 2) |-> @[k]],
                !.featureid_to_kindid =
                    IF kindid < Size(ks)
                    THEN [f \in Features |->
                            IF f \in ks[kindid].featureids THEN kindid ELSE @[f]]
                    ELSE @]

RemoveFeaturelessKind(st, kindid) ==
    IF st.kinds[kindid].featureids # {}
    THEN Fail(st)
    ELSE LET ks == PackedRemove(st.kinds, kindid)
         IN [st EXCEPT
                !.kinds = ks,
                !.assignments = PackedRemove(@, kindid),
                !.featureid_to_kindid =
                    IF kindid < Size(ks)
                    THEN [f \in Features |->
                            IF f \in ks[kindid].featureids THEN kindid ELSE @[f]]
                    ELSE @]

\* ---------------------------------------------------- init_featureless_kinds
\* variant: the scan stops above index 0
RECURSIVE RemoveScanAboveZero(_, _)
RemoveScanAboveZero(st, i) ==
    IF i <= 0 \/ ~st.ok THEN st
    ELSE RemoveScanAboveZero(IF st.kinds[i].featureids = {}
                             THEN RemoveFeaturelessKind(st, i) ELSE st,
                             i - 1)

\* first loop: i from kinds.size() - 1 down to 0
RECURSIVE RemoveScan(_, _)
RemoveScan(st, i) ==
    IF i < 0 \/ ~st.ok THEN st
    ELSE RemoveScan(IF st.kinds[i].featureids = {}
                    THEN RemoveFeaturelessKind(st, i) ELSE st,
                    i - 1)

\* variant: the scan starts one index below the last kind
RemovalPhaseBelowLast(st) == RemoveScan(st, Size(st.kinds) - 2)

RemovalPhase(st) == RemoveScan(st, Size(st.kinds) - 1)

\* variant: the loop runs one time too few
RECURSIVE AddLoopShort(_, _, _, _)
AddLoopShort(st, featureless_kind_count, samples, i) ==
    IF i + 1 >= featureless_kind_count \/ ~st.ok THEN st
    ELSE AddLoopShort(AddFeaturelessKind(st, samples[i + 1]),
                      featureless_kind_count, samples, i + 1)

\* second loop: one add_featureless_kind per requested kind; samples[i] is
\* the assignment vector drawn for the i-th new kind
RECURSIVE AddLoop(_, _, _, _)
AddLoop(st, featureless_kind_count, samples, i) ==
    IF i >= featureless_kind_count \/ ~st.ok THEN st
    ELSE AddLoop(AddFeaturelessKind(st, samples[i + 1]),
                 featureless_kind_count, samples, i + 1)

\* variant: no removal before the kinds are added
InitFeaturelessKindsNoRemoval(st, featureless_kind_count, samples) ==
    Validated(AddLoop(st, featureless_kind_count, samples, 0))

InitFeaturelessKinds(st, featureless_kind_count, samples) ==
    Validated(AddLoop(RemovalPhase(st), featureless_kind_count, samples, 0))

\* ------------------------------------------------------ move_feature_to_kind
\* variant: a source kind that the move empties is removed at once
MoveFeatureToKindDropsEmptied(st, featureid, new_kindid) ==
    LET old_kindid == st.featureid_to_kindid[featureid]
        erased == [st.kinds EXCEPT ![old_kindid].featureids = @ \ {featureid}]
        inserted == [erased EXCEPT ![new_kindid].featureids = @ \cup {featureid}]
        moved == [st EXCEPT !.kinds = inserted,
                            !.featureid_to_kindid[featureid] = new_kindid]
    IN IF new_kindid = old_kindid
       THEN Fail(st)
       ELSE Validated(IF inserted[old_kindid].featureids = {}
                      THEN RemoveFeaturelessKind(moved, old_kindid)
                      ELSE moved)

MoveFeatureToKind(st, featureid, new_kindid) ==
    LET old_kindid == st.featureid_to_kindid[featureid]
        erased == [st.kinds EXCEPT ![old_kindid].featureids = @ \ {featureid}]
        inserted == [erased EXCEPT ![new_kindid].featureids = @ \cup {featureid}]
    IN IF new_kindid = old_kindid
       THEN Fail(st)
       ELSE Validated([st EXCEPT
                         !.kinds = inserted,
                         !.featureid_to_kindid[featureid] = new_kindid])

\* ------------------------------------------------------------------ try_run
\* the debug-level entry check: the table and kind 0's mixture agree on rows
RowCountsAgree(st) == st.row_count = CountRows(st.kinds[0].counts)

\* variant: the loop ends after the first move
RECURSIVE ApplyMovesFirstOnly(_, _, _, _, _)
ApplyMovesFirstOnly(st, old, new, featureid, count) ==
    IF featureid >= Size(old) \/ ~st.ok \/ count > 0
    THEN [st |-> st, change_count |-> count]
    ELSE IF new[featureid] # old[featureid]
    THEN ApplyMovesFirstOnly(
             MoveFeatureToKind(st, featureid, new[featureid]),
             old, new, featureid + 1, count + 1)
    ELSE ApplyMovesFirstOnly(st, old, new, featureid + 1, count)

\* variant: change_count is incremented for every feature
RECURSIVE ApplyMovesCountsAll(_, _, _, _, _)
ApplyMovesCountsAll(st, old, new, featureid, count) ==
    IF featureid >= Size(old) \/ ~st.ok
    THEN [st |-> st, change_count |-> count]
    ELSE IF new[featureid] # old[featureid]
    THEN ApplyMovesCountsAll(
             MoveFeatureToKind(st, featureid, new[featureid]),
             old, new, featureid + 1, count + 1)
    ELSE ApplyMovesCountsAll(st, old, new, featureid + 1, count + 1)

\* the apply loop: featureid from 0 to feature_count - 1
RECURSIVE ApplyMoves(_, _, _, _, _)
ApplyMoves(st, old, new, featureid, count) ==
    IF featureid >= Size(old) \/ ~st.ok
    THEN [st |-> st, change_count |-> count]
    ELSE IF new[featureid] # old[featureid]
    THEN ApplyMoves(MoveFeatureToKind(st, featureid, new[featureid]),
                    old, new, featureid + 1, count + 1)
    ELSE ApplyMoves(st, old, new, featureid + 1, count)

\* variant: the second pass assigns 2 instead of or-ing it in
KindStatesAssign(old, new, kind_count) ==
    [k \in 0 .. (kind_count - 1) |->
        IF \E f \in DOMAIN new : new[f] = k THEN 2
        ELSE IF \E f \in DOMAIN old : old[f] = k THEN 1 ELSE 0]

\* kind_states: bit 0 = occupied under old, bit 1 = occupied under new
KindStates(old, new, kind_count) ==
    [k \in 0 .. (kind_count - 1) |->
        (IF \E f \in DOMAIN old : old[f] = k THEN 1 ELSE 0)
      + (IF \E f \in DOMAIN new : new[f] = k THEN 2 ELSE 0)]

StateCounts(kind_states, state) ==
    Cardinality({k \in DOMAIN kind_states : kind_states[k] = state})

\* variant: deaths read from the births' slot
DeathCountFromBirths(kind_states) == StateCounts(kind_states, 2)

DeathCount(kind_states) == StateCounts(kind_states, 1)

\* variant: births counted over every kind occupied under new
BirthCountAllNew(kind_states) ==
    StateCounts(kind_states, 2) + StateCounts(kind_states, 3)

BirthCount(kind_states) == StateCounts(kind_states, 2)

\* ------------------------------------------------------------------- state
NoCall == [op |-> "none", a |-> -1, b |-> -1]

NoStore == [kinds |-> <<>>, assignments |-> <<>>,
            featureid_to_kindid |-> <<>>, row_count |-> 0, ok |-> TRUE]

\* no call is being followed statement by statement
Idle == [at |-> "idle", op |-> "none", i |-> -1, n |-> -1,
         pending |-> {}, mirror |-> <<>>, source |-> -1]

\* no stream file is in use
NoStream == [state |-> "none", file |-> <<>>, sent |-> <<>>, offset |-> 0,
             position |-> 0, got |-> <<>>, ret |-> "none", before |-> 0,
             op |-> "none", prev |-> "none", target |-> -1,
             reopened |-> FALSE]

\* configurations handed to the constructor: (iterations, empty_kind_count)
Configs ==
    {<<1, e>> : e \in 0 .. MaxEmptyKindCount} \cup {<<0, 1>>}

\* a store of the given number of rows as the kernel's owner hands it over:
\* any arrangement of kinds, empty or occupied, that passes validation
OwnerStores(rows) ==
    UNION {
      {Store([k \in 0 .. (n - 1) |->
                 [featureids |-> {f \in Features : m[f] = k},
                  counts |-> GroupCounts(a[k])]],
             a, m, rows) :
         m \in [Features -> 0 .. (n - 1)],
         a \in [0 .. (n - 1) -> SampleAssignments(rows)]} :
      n \in 1 .. MaxInitKinds}

InitWith(st, cfg, at) ==
    /\ pc = at
    /\ iterations = cfg[1]
    /\ empty_kind_count = cfg[2]
    /\ kinds = st.kinds
    /\ featureid_to_kindid = st.featureid_to_kindid
    /\ assignments = st.assignments
    /\ row_count = st.row_count
    /\ total_count = 0
    /\ change_count = 0
    /\ birth_count = 0
    /\ death_count = 0
    /\ old_kindids = <<>>
    /\ new_kindids = <<>>
    /\ ret = "none"
    /\ call = NoCall
    /\ pre = NoStore
    /\ step = Idle
    /\ stream = NoStream

\* The kernel's transitions do not look at the rows, so the life of a kernel
\* is followed on stores of at most LifecycleRows rows; the operations one
\* at a time (below) are followed on stores of RowCount rows.
Init ==
    \E rows \in 0 .. LifecycleRows : \E st \in OwnerStores(rows) :
        \E cfg \in Configs : InitWith(st, cfg, "new")

\* the store after an operation, and where the operation left the kernel
Leave(st, done) ==
    /\ kinds' = st.kinds
    /\ featureid_to_kindid' = st.featureid_to_kindid
    /\ assignments' = st.assignments
    /\ pc' = IF st.ok THEN done ELSE "aborted"
    /\ pre' = Current
    /\ UNCHANGED <<row_count, step, stream>>

\* ----------------------------------------------------------------- actions
\* KindKernel::KindKernel
Construct ==
    /\ pc = "new"
    /\ \E samples \in [1 .. empty_kind_count -> SampleAssignments(row_count)] :
          LET checked ==
                  IF 0 < iterations /\ 0 < empty_kind_count
                     /\ RowCountsAgree(Current)
                  THEN Current ELSE Fail(Current)
              st == IF checked.ok
                    THEN Validated(InitFeaturelessKinds(
                             checked, empty_kind_count, samples))
                    ELSE checked
          IN Leave(st, "returned")
    /\ call' = [op |-> "ctor", a |-> empty_kind_count, b |-> -1]
    /\ UNCHANGED <<iterations, empty_kind_count, total_count, change_count,
                   birth_count, death_count, old_kindids, new_kindids, ret>>

\* KindKernel::try_run; proposed is what infer_assignments leaves in
\* new_kindids
TryRun ==
    /\ pc = "ready"
    /\ \E proposed \in [Features -> DOMAIN kinds] :
       \E samples \in [1 .. empty_kind_count -> SampleAssignments(row_count)] :
          LET entered ==
                  IF RowCountsAgree(Current) THEN Validated(Current)
                  ELSE Fail(Current)
              applied ==
                  ApplyMoves(entered, featureid_to_kindid, proposed, 0, 0)
              kind_states ==
                  KindStates(featureid_to_kindid, proposed,
                             Size(applied.st.kinds))
              st == IF applied.st.ok
                    THEN Validated(InitFeaturelessKinds(
                             applied.st, empty_kind_count, samples))
                    ELSE applied.st
          IN /\ Leave(st, "returned")
             /\ old_kindids' = featureid_to_kindid
             /\ new_kindids' = proposed
             /\ total_count' = Size(featureid_to_kindid)
             /\ change_count' = applied.change_count
             /\ death_count' = DeathCount(kind_states)
             /\ birth_count' = BirthCount(kind_states)
             /\ ret' = (applied.change_count > 0)
    /\ call' = [op |-> "try_run", a |-> empty_kind_count, b |-> -1]
    /\ UNCHANGED <<iterations, empty_kind_count>>

\* KindKernel::~KindKernel
Destroy ==
    /\ pc = "ready"
    /\ Leave(Validated(InitFeaturelessKinds(Current, 0, <<>>)), "destroyed")
    /\ call' = [op |-> "dtor", a |-> 0, b |-> -1]
    /\ UNCHANGED <<iterations, empty_kind_count, total_count, change_count,
                   birth_count, death_count, old_kindids, new_kindids, ret>>

\* Control is back with the owner.  The locals of the call are gone; the
\* counters are written by try_run only and read by no operation of the
\* kernel, so the model forgets them with the locals.
Return ==
    /\ pc = "returned"
    /\ pc' = "ready"
    /\ total_count' = 0
    /\ change_count' = 0
    /\ birth_count' = 0
    /\ death_count' = 0
    /\ old_kindids' = <<>>
    /\ new_kindids' = <<>>
    /\ ret' = "none"
    /\ call' = NoCall
    /\ pre' = NoStore
    /\ UNCHANGED <<iterations, empty_kind_count, kinds, featureid_to_kindid,
                   assignments, row_count, step, stream>>

Next == Construct \/ TryRun \/ Destroy \/ Return

Spec == Init /\ [][Next]_vars

Image(m) == {m[f] : f \in DOMAIN m}

EmptyKinds(ks) == {k \in DOMAIN ks : ks[k].featureids = {}}

OccupiedKinds(ks) == {k \in DOMAIN ks : ks[k].featureids # {}}

\* ---------------------------------------------- the operations one at a time
\* The second specification starts from any store an owner can hand over and
\* runs the kernel's store operations one call at a time, so that each
\* operation is seen on every arrangement of empty and occupied kinds.
InitOps == \E st \in OwnerStores(RowCount) : InitWith(st, <<1, 1>>, "ready")

Untouched ==
    UNCHANGED <<iterations, empty_kind_count, total_count, change_count,
                birth_count, death_count, old_kindids, new_kindids, ret>>

\* remove_featureless_kind(kindid)
CallRemoveFeaturelessKind ==
    /\ pc = "ready"
    /\ \E kindid \in DOMAIN kinds :
          /\ Leave(RemoveFeaturelessKind(Current, kindid), "returned")
          /\ call' = [op |-> "remove", a |-> kindid, b |-> -1]
    /\ Untouched

\* add_featureless_kind()
CallAddFeaturelessKind ==
    /\ pc = "ready"
    /\ Size(kinds) < MaxKinds
    /\ \E assignment_vector \in SampleAssignments(row_count) :
          Leave(AddFeaturelessKind(Current, assignment_vector), "returned")
    /\ call' = [op |-> "add", a |-> -1, b |-> -1]
    /\ Untouched

\* move_feature_to_kind(featureid, new_kindid)
CallMoveFeatureToKind ==
    /\ pc = "ready"
    /\ \E featureid \in Features : \E new_kindid \in DOMAIN kinds :
          /\ Leave(MoveFeatureToKind(Current, featureid, new_kindid),
                   "returned")
          /\ call' = [op |-> "move", a |-> featureid, b |-> new_kindid]
    /\ Untouched

\* init_featureless_kinds(featureless_kind_count)
CallInitFeaturelessKinds ==
    /\ pc = "ready"
    /\ \E featureless_kind_count \in 0 .. MaxEmptyKindCount :
       \E samples \in
             [1 .. featureless_kind_count -> SampleAssignments(row_count)] :
          /\ Cardinality(OccupiedKinds(kinds)) + featureless_kind_count
                <= MaxKinds
          /\ Leave(InitFeaturelessKinds(
                       Current, featureless_kind_count, samples), "returned")
          /\ call' = [op |-> "init", a |-> featureless_kind_count, b |-> -1]
    /\ Untouched

\* init_featureless_kinds(featureless_kind_count) called a second time with
\* the same count, directly after the first call has returned
CallInitFeaturelessKindsAgain ==
    /\ pc = "returned"
    /\ call.op = "init"
    /\ \E samples \in [1 .. call.a -> SampleAssignments(row_count)] :
          Leave(InitFeaturelessKinds(Current, call.a, samples), "returned")
    /\ call' = [op |-> "init_again", a |-> call.a, b |-> -1]
    /\ Untouched

NextOps ==
    \/ CallRemoveFeaturelessKind
    \/ CallAddFeaturelessKind
    \/ CallMoveFeatureToKind
    \/ CallInitFeaturelessKinds
    \/ CallInitFeaturelessKindsAgain
    \/ Return

SpecOps == InitOps /\ [][NextOps]_vars

\* --------------------------------------------- the calls statement by statement
\* The third specification follows the constructor, try_run and the
\* destructor one statement at a time: the proposer's scoring tasks, the
\* apply loop one feature at a time, and both loops of
\* init_featureless_kinds one kind at a time.  pc is "running" while a call
\* is followed; step.at is the statement it stands at.
InitSteps ==
    \E st \in OwnerStores(LifecycleRows) : \E cfg \in Configs :
        InitWith(st, cfg, "new")

Put(st) ==
    /\ kinds' = st.kinds
    /\ featureid_to_kindid' = st.featureid_to_kindid
    /\ assignments' = st.assignments
    /\ UNCHANGED row_count

\* variant: the same indices in ascending order
ScanOrderAscending(kind_count) == [j \in 1 .. kind_count |-> j - 1]

\* the indices the removal loop visits, in the order it visits them
ScanOrder(kind_count) == [j \in 1 .. kind_count |-> kind_count - j]

\* where init_featureless_kinds(featureless_kind_count) starts
ScanStart(from, op, featureless_kind_count) ==
    [from EXCEPT !.at = "scan", !.op = op, !.i = 1,
                 !.n = featureless_kind_count]

\* KindKernel::KindKernel up to the call of init_featureless_kinds
CtorEnter ==
    /\ pc = "new"
    /\ LET ok == 0 < iterations /\ 0 < empty_kind_count
                 /\ RowCountsAgree(Current)
       IN /\ pc' = IF ok THEN "running" ELSE "aborted"
          /\ step' = IF ok THEN ScanStart(Idle, "ctor", empty_kind_count)
                     ELSE Idle
    /\ call' = [op |-> "ctor", a |-> empty_kind_count, b |-> -1]
    /\ pre' = Current
    /\ UNCHANGED stream
    /\ UNCHANGED <<iterations, empty_kind_count, kinds, featureid_to_kindid,
                   assignments, row_count, total_count, change_count,
                   birth_count, death_count, old_kindids, new_kindids, ret>>

\* try_run up to the call of the proposer: the entry checks, the snapshot
\* old_kindids and its copy new_kindids; the proposer starts one scoring
\* task per feature
TryRunEnter ==
    /\ pc = "ready"
    /\ LET entered == IF RowCountsAgree(Current) THEN Validated(Current)
                      ELSE Fail(Current)
       IN /\ pc' = IF entered.ok THEN "running" ELSE "aborted"
          /\ step' = IF entered.ok
                     THEN [Idle EXCEPT !.at = "score", !.op = "try_run",
                                       !.pending = Features,
                                       !.mirror = [f \in Features |-> -1]]
                     ELSE Idle
    /\ old_kindids' = featureid_to_kindid
    /\ new_kindids' = featureid_to_kindid
    /\ call' = [op |-> "try_run", a |-> empty_kind_count, b |-> -1]
    /\ pre' = Current
    /\ UNCHANGED stream
    /\ UNCHANGED <<iterations, empty_kind_count, kinds, featureid_to_kindid,
                   assignments, row_count, total_count, change_count,
                   birth_count, death_count, ret>>

\* what a scoring task reads from the Partition for its feature
ScoreRead(st, featureid) == st.featureid_to_kindid[featureid]

\* one scoring task of the proposer, in any order with the others: it reads
\* the Partition and writes its slot of the proposer's mirror
ProposerScore ==
    /\ pc = "running"
    /\ step.at = "score"
    /\ \E featureid \in step.pending :
          step' = [step EXCEPT
                      !.pending = @ \ {featureid},
                      !.mirror[featureid] = ScoreRead(Current, featureid)]
    /\ UNCHANGED stream
    /\ UNCHANGED <<pc, iterations, empty_kind_count, kinds,
                   featureid_to_kindid, assignments, row_count, total_count,
                   change_count, birth_count, death_count, old_kindids,
                   new_kindids, ret, call, pre>>

\* variant: the proposer returns without waiting for its scoring tasks
ProposerJoinedEarly(pending) == TRUE

\* the proposer's join: every scoring task has finished
ProposerJoined(pending) == pending = {}

\* variant: the proposer is handed the Partition's map instead of the copy
ProposerSampleInPlace ==
    /\ pc = "running"
    /\ step.at = "score"
    /\ ProposerJoined(step.pending)
    /\ \E proposed \in [Features -> DOMAIN kinds] :
          /\ new_kindids' = proposed
          /\ featureid_to_kindid' = proposed
    /\ step' = [step EXCEPT !.at = "apply", !.i = 0]
    /\ UNCHANGED stream
    /\ UNCHANGED <<pc, iterations, empty_kind_count, kinds, assignments,
                   row_count, total_count, change_count, birth_count,
                   death_count, old_kindids, ret, call, pre>>

\* infer_assignments returns: the sampled assignment is in new_kindids
ProposerSample ==
    /\ pc = "running"
    /\ step.at = "score"
    /\ ProposerJoined(step.pending)
    /\ \E proposed \in [Features -> DOMAIN kinds] : new_kindids' = proposed
    /\ step' = [step EXCEPT !.at = "apply", !.i = 0]
    /\ UNCHANGED stream
    /\ UNCHANGED <<pc, iterations, empty_kind_count, kinds,
                   featureid_to_kindid, assignments, row_count, total_count,
                   change_count, birth_count, death_count, old_kindids, ret,
                   call, pre>>

\* variant: every feature is moved, changed or not
ApplyStepAlways(st, old, new, featureid) ==
    MoveFeatureToKind(st, featureid, new[featureid])

\* the body of the apply loop for one feature
ApplyStep(st, old, new, featureid) ==
    IF new[featureid] # old[featureid]
    THEN MoveFeatureToKind(st, featureid, new[featureid])
    ELSE st

\* one iteration of the apply loop; change_count is the loop's local counter
TryRunApply ==
    /\ pc = "running"
    /\ step.at = "apply"
    /\ step.i < Size(old_kindids)
    /\ LET st == ApplyStep(Current, old_kindids, new_kindids, step.i)
       IN /\ Put(st)
          /\ pc' = IF st.ok THEN pc ELSE "aborted"
          /\ step' = IF st.ok THEN [step EXCEPT !.i = @ + 1] ELSE Idle
    /\ change_count' = IF new_kindids[step.i] # old_kindids[step.i]
                       THEN change_count + 1 ELSE change_count
    /\ UNCHANGED stream
    /\ UNCHANGED <<iterations, empty_kind_count, total_count, birth_count,
                   death_count, old_kindids, new_kindids, ret, call, pre>>

\* the apply loop is over: the counters, then init_featureless_kinds starts
TryRunTally ==
    /\ pc = "running"
    /\ step.at = "apply"
    /\ step.i >= Size(old_kindids)
    /\ LET kind_states == KindStates(old_kindids, new_kindids, Size(kinds))
       IN /\ death_count' = DeathCount(kind_states)
          /\ birth_count' = BirthCount(kind_states)
    /\ total_count' = Size(old_kindids)
    /\ step' = ScanStart(step, "try_run", empty_kind_count)
    /\ UNCHANGED stream
    /\ UNCHANGED <<pc, iterations, empty_kind_count, kinds,
                   featureid_to_kindid, assignments, row_count, change_count,
                   old_kindids, new_kindids, ret, call, pre>>

\* ~KindKernel up to the call of init_featureless_kinds(0)
DtorEnter ==
    /\ pc = "ready"
    /\ pc' = "running"
    /\ step' = ScanStart(Idle, "dtor", 0)
    /\ call' = [op |-> "dtor", a |-> 0, b |-> -1]
    /\ pre' = Current
    /\ UNCHANGED stream
    /\ UNCHANGED <<iterations, empty_kind_count, kinds, featureid_to_kindid,
                   assignments, row_count, total_count, change_count,
                   birth_count, death_count, old_kindids, new_kindids, ret>>

\* the index the removal loop is about to visit; no kind is added or removed
\* between the entry of the call and the removal loop, so the loop starts
\* from the number of kinds at entry
ScanIndex == ScanOrder(Size(pre.kinds))[step.i]

\* one iteration of the removal loop.  Reading kinds[i] at an index outside
\* the store is undefined: the read may crash, or may find something that
\* does not look like an empty kind
ScanStep ==
    /\ pc = "running"
    /\ step.at = "scan"
    /\ step.i <= Size(pre.kinds)
    /\ \E outside \in {Fail(Current), Current} :
       LET st == IF ScanIndex \notin DOMAIN kinds THEN outside
                 ELSE IF kinds[ScanIndex].featureids = {}
                 THEN RemoveFeaturelessKind(Current, ScanIndex)
                 ELSE Current
       IN /\ Put(st)
          /\ pc' = IF st.ok THEN pc ELSE "aborted"
          /\ step' = IF st.ok THEN [step EXCEPT !.i = @ + 1] ELSE Idle
    /\ UNCHANGED stream
    /\ UNCHANGED <<iterations, empty_kind_count, total_count, change_count,
                   birth_count, death_count, old_kindids, new_kindids, ret,
                   call, pre>>

\* the removal loop is over, the add loop starts
ScanEnd ==
    /\ pc = "running"
    /\ step.at = "scan"
    /\ step.i > Size(pre.kinds)
    /\ step' = [step EXCEPT !.at = "add", !.i = 0]
    /\ UNCHANGED stream
    /\ UNCHANGED <<pc, iterations, empty_kind_count, kinds,
                   featureid_to_kindid, assignments, row_count, total_count,
                   change_count, birth_count, death_count, old_kindids,
                   new_kindids, ret, call, pre>>

\* variant: the clustering model is copied from the last kind
ClusteringSourceLast(st, grid_prior_size) ==
    IF grid_prior_size > 0 THEN -1 ELSE Size(st.kinds) - 1

\* where add_featureless_kind takes the new kind's clustering model from,
\* st being the store after packed_add: -1 when it is sampled from the
\* hyperprior's grid, else the index of the kind it is copied from
ClusteringSource(st, grid_prior_size) ==
    IF grid_prior_size > 0 THEN -1 ELSE 0

\* one iteration of the add loop: add_featureless_kind, for either kind of
\* hyperprior
AddStep ==
    /\ pc = "running"
    /\ step.at = "add"
    /\ step.i < step.n
    /\ \E assignment_vector \in SampleAssignments(row_count) :
       \E grid_prior_size \in 0 .. MaxGridPriorSize :
          LET st == AddFeaturelessKind(Current, assignment_vector)
          IN /\ Put(st)
             /\ step' = [step EXCEPT
                            !.i = @ + 1,
                            !.source = ClusteringSource(st, grid_prior_size)]
    /\ UNCHANGED stream
    /\ UNCHANGED <<pc, iterations, empty_kind_count, total_count,
                   change_count, birth_count, death_count, old_kindids,
                   new_kindids, ret, call, pre>>

\* the add loop is over: init_featureless_kinds validates and returns, and
\* so does its caller
InitFinish ==
    /\ pc = "running"
    /\ step.at = "add"
    /\ step.i >= step.n
    /\ LET st == Validated(Current)
       IN /\ Put(st)
          /\ pc' = IF ~st.ok THEN "aborted"
                   ELSE IF step.op = "dtor" THEN "destroyed" ELSE "returned"
    /\ ret' = IF step.op = "try_run" THEN (change_count > 0) ELSE ret
    /\ step' = Idle
    /\ UNCHANGED stream
    /\ UNCHANGED <<iterations, empty_kind_count, total_count, change_count,
                   birth_count, death_count, old_kindids, new_kindids, call,
                   pre>>

NextSteps ==
    \/ CtorEnter
    \/ TryRunEnter
    \/ ProposerScore
    \/ ProposerSample
    \/ TryRunApply
    \/ TryRunTally
    \/ DtorEnter
    \/ ScanStep
    \/ ScanEnd
    \/ AddStep
    \/ InitFinish
    \/ Return

SpecSteps == InitSteps /\ [][NextSteps]_vars

\* ------------------------------------------------------- protobuf streams
\* The fourth specification follows one stream file (src/src/protobuf_stream.hpp):
\* an OutFile writes records to it and is destroyed, then an InFile reads
\* it.  The file is a sequence of bytes; a record is the std::vector<char>
\* handed to write_stream, or the bytes a Message serializes to.  No kernel
\* exists while the stream is followed.
Bytes == 0 .. MaxByte

Records == UNION {[1 .. n -> Bytes] : n \in 0 .. MaxRecordLen}

\* WriteLittleEndian32: the low 32 bits of the value, low byte first
LittleEndian32(value) ==
    <<value % 256, (value \div 256) % 256, (value \div 65536) % 256,
      (value \div 16777216) % 256>>

\* ReadLittleEndian32 at a byte offset of the file: fails when fewer than
\* four bytes are left
ReadLittleEndian32(file, offset) ==
    IF Len(file) - offset < 4
    THEN [success |-> FALSE, value |-> 0]
    ELSE [success |-> TRUE,
          value |-> file[offset + 1] + 256 * file[offset + 2]
                    + 65536 * file[offset + 3] + 16777216 * file[offset + 4]]

\* variant: the length prefix counts its own four bytes
FrameCountsPrefix(raw) == LittleEndian32(Len(raw) + 4) \o raw

\* what write_stream puts on the stream for one record
Frame(raw) == LittleEndian32(Len(raw)) \o raw

InitStream == InitWith(NoStore, <<1, 1>>, "absent")

KernelAbsent ==
    UNCHANGED <<pc, iterations, empty_kind_count, kinds, featureid_to_kindid,
                assignments, row_count, total_count, change_count,
                birth_count, death_count, old_kindids, new_kindids, ret,
                call, pre, step>>

\* OutFile::OutFile(filename): the file is created or truncated
OutOpen ==
    /\ stream.state = "none"
    /\ stream' = [NoStream EXCEPT !.state = "writing"]
    /\ KernelAbsent

\* OutFile::write_stream
WriteStream ==
    /\ stream.state = "writing"
    /\ Len(stream.sent) < MaxRecords
    /\ \E raw \in Records :
          stream' = [stream EXCEPT !.file = @ \o Frame(raw),
                                   !.sent = Append(@, raw)]
    /\ KernelAbsent

\* OutFile::~OutFile: everything written is in the file
OutClose ==
    /\ stream.state = "writing"
    /\ stream' = [stream EXCEPT !.state = "written"]
    /\ KernelAbsent

\* InFile::InFile(filename), _open: reading starts at the first byte,
\* position_ = 0
InOpen ==
    /\ stream.state = "written"
    /\ stream' = [stream EXCEPT !.state = "reading", !.offset = 0,
                                !.position = 0]
    /\ KernelAbsent

\* InFile::try_read_stream on a reader: the length prefix, then that many
\* bytes, which must be there (else the assertion fails), then ++position_;
\* false when the prefix cannot be read.  A prefix cut short by the end of
\* the file may or may not have been consumed.
TryReadStreamFrom(s, consumed) ==
    LET prefix == ReadLittleEndian32(s.file, s.offset)
        message_size == prefix.value
        first == s.offset + 4
    IN IF ~prefix.success
       THEN [s EXCEPT !.ret = "false", !.before = s.position,
                      !.offset = IF consumed THEN Len(s.file) ELSE @]
       ELSE IF Len(s.file) - first < message_size
       THEN [s EXCEPT !.state = "aborted"]
       ELSE [s EXCEPT
                !.got = Append(@, SubSeq(s.file, first + 1,
                                         first + message_size)),
                !.offset = first + message_size,
                !.position = @ + 1,
                !.before = s.position,
                !.ret = "true"]

TryReadStream ==
    /\ stream.state = "reading"
    /\ \E consumed \in BOOLEAN :
          stream' = TryReadStreamFrom(stream, consumed)
    /\ KernelAbsent

NextStream ==
    \/ OutOpen
    \/ WriteStream
    \/ OutClose
    \/ InOpen
    \/ TryReadStream

SpecStream == InitStream /\ [][NextStream]_vars

\* ------------------------------------------------- reads and seeks on a file
\* The fifth specification reads a written file with any interleaving of
\* try_read_stream, set_position and cyclic_read_stream on one message
\* buffer: stream.got holds the record the last call returned, if any.
\* stream.op is the last call, stream.prev the call before it, stream.target
\* the target of the last set_position, stream.before the position when the
\* last call was entered, and stream.reopened whether the last call closed
\* and reopened the file.
Entered(s, op) ==
    [s EXCEPT !.prev = s.op, !.op = op, !.before = s.position,
              !.got = <<>>, !.ret = "none", !.reopened = FALSE]

\* _close, then _open: reading starts over at the first byte, position_ = 0
Reopen(s) == [s EXCEPT !.offset = 0, !.position = 0, !.reopened = TRUE]

\* variant: the loop runs until position_ has passed the target
RECURSIVE SkipLoopPastTarget(_, _)
SkipLoopPastTarget(s, target) ==
    IF s.position > target THEN s
    ELSE LET prefix == ReadLittleEndian32(s.file, s.offset)
             first == s.offset + 4
         IN IF ~prefix.success \/ Len(s.file) - first < prefix.value
            THEN [s EXCEPT !.state = "aborted"]
            ELSE SkipLoopPastTarget(
                     [s EXCEPT !.offset = first + prefix.value,
                               !.position = @ + 1],
                     target)

\* the loop of set_position: while position_ < target, read a length prefix
\* and skip that many bytes, both of which must succeed, then ++position_
RECURSIVE SkipLoop(_, _)
SkipLoop(s, target) ==
    IF s.position >= target THEN s
    ELSE LET prefix == ReadLittleEndian32(s.file, s.offset)
             first == s.offset + 4
         IN IF ~prefix.success \/ Len(s.file) - first < prefix.value
            THEN [s EXCEPT !.state = "aborted"]
            ELSE SkipLoop([s EXCEPT !.offset = first + prefix.value,
                                    !.position = @ + 1],
                          target)

\* InFile::set_position(target)
SetPositionFrom(s, target) ==
    SkipLoop(IF target < s.position THEN Reopen(s) ELSE s, target)

\* InFile::cyclic_read_stream on a file: try_read_stream, and when that
\* returns false, _close, _open and a second try_read_stream that must
\* succeed
CyclicReadStreamFrom(s, consumed) ==
    LET first == TryReadStreamFrom(s, consumed)
        second == TryReadStreamFrom(Reopen(first), consumed)
    IN IF first.state = "aborted" \/ first.ret = "true" THEN first
       ELSE IF second.ret = "true" THEN second
       ELSE [second EXCEPT !.state = "aborted"]

\* OutFile::write_stream of a record of any length whose bytes carry the
\* record's number (as far as a byte of the model can), so that a record
\* read back tells which one it is
WriteNumbered ==
    /\ stream.state = "writing"
    /\ Len(stream.sent) < MaxRecords
    /\ \E n \in 0 .. MaxRecordLen :
          LET raw == [i \in 1 .. n |-> Len(stream.sent) % (MaxByte + 1)]
          IN stream' = [stream EXCEPT !.file = @ \o Frame(raw),
                                      !.sent = Append(@, raw)]
    /\ KernelAbsent

\* try_read_stream(message)
ReadOne ==
    /\ stream.state = "reading"
    /\ \E consumed \in BOOLEAN :
          stream' = TryReadStreamFrom(Entered(stream, "read"), consumed)
    /\ KernelAbsent

\* set_position(target), for targets up to one past the bound on the
\* number of records
SetPosition ==
    /\ stream.state = "reading"
    /\ \E target \in 0 .. (MaxRecords + 1) :
          stream' = SetPositionFrom(
                        [Entered(stream, "seek") EXCEPT !.target = target],
                        target)
    /\ KernelAbsent

\* cyclic_read_stream(message)
CyclicReadStream ==
    /\ stream.state = "reading"
    /\ \E consumed \in BOOLEAN :
          stream' = [CyclicReadStreamFrom(Entered(stream, "cyclic"), consumed)
                        EXCEPT !.before = stream.position]
    /\ KernelAbsent

NextSeek ==
    \/ OutOpen
    \/ WriteNumbered
    \/ OutClose
    \/ InOpen
    \/ ReadOne
    \/ SetPosition
    \/ CyclicReadStream

SpecSeek == InitStream /\ [][NextSeek]_vars

\* ------------------------------------------------------------------- claims
Returned(op) == pc = "returned" /\ call.op = op

\* C1: in every state reached by construction, try_run and destruction, the
\* feature -> kind map and the kinds' owned feature sets agree both ways:
\* the kind a feature maps to owns it, and every owned feature maps back.
C1_Bijection ==
    /\ \A f \in Features :
          /\ featureid_to_kindid[f] \in DOMAIN kinds
          /\ f \in kinds[featureid_to_kindid[f]].featureids
    /\ \A k \in DOMAIN kinds : \A f \in kinds[k].featureids :
          featureid_to_kindid[f] = k

\* a try_run in which a kind died below the last occupied index, so that the
\* removal renumbered an occupied kind
C1_Witness ==
    /\ Returned("try_run")
    /\ death_count > 0
    /\ \E f \in Features :
          /\ new_kindids[f] = old_kindids[f]
          /\ featureid_to_kindid[f] # old_kindids[f]

\* C2: right after init_featureless_kinds(n) returns (n = empty_kind_count
\* from the constructor and try_run, n = 0 from the destructor) exactly n
\* kinds own no feature.
C2_ReservoirExact ==
    (pc \in {"returned", "destroyed"} /\ call.op \in {"ctor", "try_run", "dtor"})
        => Cardinality(EmptyKinds(kinds)) = call.a

\* a try_run that used up a reservoir kind and left another kind empty
C2_Witness ==
    /\ Returned("try_run")
    /\ birth_count > 0
    /\ death_count > 0
    /\ Cardinality(EmptyKinds(kinds)) = empty_kind_count

\* C3: after try_run the grouping of the features is the grouping of the
\* proposal, up to renumbering: the kind that owns f owns exactly the
\* features the proposal put with f.
C3_GroupingIsProposal ==
    Returned("try_run") =>
        \A f \in Features :
            kinds[featureid_to_kindid[f]].featureids =
                {g \in Features : new_kindids[g] = new_kindids[f]}

\* a try_run that moved some features, kept others, and renumbered
C3_Witness ==
    /\ Returned("try_run")
    /\ \E f, g \in Features :
          /\ new_kindids[f] # old_kindids[f]
          /\ new_kindids[g] = old_kindids[g]
    /\ featureid_to_kindid # new_kindids

\* C4: a proposal equal to the old map makes try_run return false with all
\* three counters 0, and leaves the map, the number of kinds and every
\* occupied kind (index and owned features) as they were.
C4_NoOpTransition ==
    (Returned("try_run") /\ new_kindids = old_kindids) =>
        /\ ret = FALSE
        /\ change_count = 0
        /\ birth_count = 0
        /\ death_count = 0
        /\ featureid_to_kindid = pre.featureid_to_kindid
        /\ Size(kinds) = Size(pre.kinds)
        /\ \A k \in OccupiedKinds(pre.kinds) :
              k \in DOMAIN kinds /\ kinds[k] = pre.kinds[k]

C4_Witness ==
    /\ Returned("try_run")
    /\ new_kindids = old_kindids
    /\ Cardinality(OccupiedKinds(kinds)) > 1

\* C5 as amended: death_count is the number of kind indices in the image of
\* the old map and not of the new one, birth_count the number in the image
\* of the new map and not of the old one; with 3 kinds, when kind 0 loses all
\* its features, an empty kind gains one of them and the third kind is
\* occupied before and after or empty before and after, both counts are 1.
C5_BirthDeathAmended ==
    Returned("try_run") =>
        /\ death_count =
              Cardinality(Image(old_kindids) \ Image(new_kindids))
        /\ birth_count =
              Cardinality(Image(new_kindids) \ Image(old_kindids))
        /\ (/\ Size(pre.kinds) = 3
            /\ 0 \in Image(old_kindids) \ Image(new_kindids)
            /\ \E f \in Features : \E k \in EmptyKinds(pre.kinds) :
                   old_kindids[f] = 0 /\ new_kindids[f] = k
            /\ \E k \in DOMAIN pre.kinds :
                   (k \in Image(old_kindids)) = (k \in Image(new_kindids)))
           => (death_count = 1 /\ birth_count = 1)

C5_Witness ==
    /\ Returned("try_run")
    /\ Size(pre.kinds) = 3
    /\ 0 \in Image(old_kindids) \ Image(new_kindids)
    /\ \E f \in Features : \E k \in EmptyKinds(pre.kinds) :
           old_kindids[f] = 0 /\ new_kindids[f] = k
    /\ death_count = 1
    /\ birth_count = 1

\* C5 as stated: with 3 kinds, whenever kind 0 loses all its features and a
\* previously empty kind gains one of them, death_count = 1 and
\* birth_count = 1.
C5_AsStated ==
    (/\ Returned("try_run")
     /\ Size(pre.kinds) = 3
     /\ 0 \in Image(old_kindids) \ Image(new_kindids)
     /\ \E f \in Features : \E k \in EmptyKinds(pre.kinds) :
            old_kindids[f] = 0 /\ new_kindids[f] = k)
        => (death_count = 1 /\ birth_count = 1)

\* C6: the removal phase of init_featureless_kinds, from any arrangement of
\* empty and occupied kinds, keeps exactly the occupied kinds, each with its
\* owned features, and every owned feature resolves through the map to the
\* index its kind now has; with no kind added the store holds nothing else.
C6_RemovalKeepsOccupied ==
    Returned("init") =>
        /\ {kinds[k] : k \in OccupiedKinds(kinds)} =
              {pre.kinds[k] : k \in OccupiedKinds(pre.kinds)}
        /\ Cardinality(OccupiedKinds(kinds)) =
              Cardinality(OccupiedKinds(pre.kinds))
        /\ call.a = 0 => OccupiedKinds(kinds) = DOMAIN kinds
        /\ \A k \in DOMAIN kinds : \A f \in kinds[k].featureids :
              featureid_to_kindid[f] = k

\* [A(empty), B, C(empty)] with B owning at least two features
C6_Witness ==
    /\ Returned("init")
    /\ call.a = 0
    /\ Size(pre.kinds) = 3
    /\ EmptyKinds(pre.kinds) = {0, 2}
    /\ Cardinality(pre.kinds[1].featureids) >= 2
    /\ Size(kinds) = 1
    /\ kinds[0] = pre.kinds[1]

\* C7: remove_featureless_kind on a kind that owns a feature fails fatally
\* and leaves the kinds, the row assignment table and the map as they were.
C7_RemoveOccupiedIsFatal ==
    (call.op = "remove" /\ pre.kinds[call.a].featureids # {}) =>
        /\ pc = "aborted"
        /\ kinds = pre.kinds
        /\ assignments = pre.assignments
        /\ featureid_to_kindid = pre.featureid_to_kindid

C7_Witness ==
    /\ pc = "aborted"
    /\ call.op = "remove"
    /\ pre.kinds[call.a].featureids # {}
    /\ call.a < Size(pre.kinds) - 1

\* C8: try_run returns true exactly when change_count > 0, change_count is
\* the number of features whose proposed kind differs from the old one, and
\* total_count is the number of features.
C8_ReturnIsChange ==
    Returned("try_run") =>
        /\ (ret = TRUE) <=> (change_count > 0)
        /\ ret \in BOOLEAN
        /\ change_count =
              Cardinality({f \in Features : new_kindids[f] # old_kindids[f]})
        /\ total_count = NumFeatures

C8_Witness ==
    /\ Returned("try_run")
    /\ ret = TRUE
    /\ change_count = 2

\* the proposal that moves feature 2, and nothing else, from kind 0 into
\* a kind of the reservoir
MovesFeature2Only ==
    /\ Size(pre.kinds) = 3
    /\ pre.kinds[0].featureids = Features
    /\ old_kindids = [f \in Features |-> 0]
    /\ \E k \in {1, 2} :
          new_kindids = [f \in Features |-> IF f = 2 THEN k ELSE 0]

\* C9: from one occupied kind that owns every feature and with
\* empty_kind_count = 2, construction leaves 3 kinds (1 occupied, 2 empty)
\* that pass validation; a try_run that moves feature 2 into an empty kind
\* leaves 2 occupied and 2 empty kinds, change_count = 1, birth_count = 1.
C9_EndToEnd ==
    /\ (/\ call.op = "ctor"
        /\ Size(pre.kinds) = 1
        /\ iterations > 0
        /\ empty_kind_count = 2)
       => /\ pc = "returned"
          /\ Size(kinds) = 3
          /\ Cardinality(OccupiedKinds(kinds)) = 1
          /\ Cardinality(EmptyKinds(kinds)) = 2
          /\ CrossCatValidate(Current)
          /\ AssignmentsValidate(Current)
    /\ (/\ call.op = "try_run"
        /\ empty_kind_count = 2
        /\ MovesFeature2Only)
       => /\ pc = "returned"
          /\ Size(kinds) = 4
          /\ Cardinality(OccupiedKinds(kinds)) = 2
          /\ Cardinality(EmptyKinds(kinds)) = 2
          /\ change_count = 1
          /\ birth_count = 1
          /\ death_count = 0

C9_Witness ==
    /\ Returned("try_run")
    /\ empty_kind_count = 2
    /\ MovesFeature2Only
    /\ kinds[1].featureids = {2}

\* C10: the row assignment table has one entry per kind, every entry holds
\* row_count group ids and is the entry its kind's mixture was built from;
\* removal moves the entry of the relocated kind with it and leaves the
\* other entries in place, and an add appends one entry.
C10_TableAligned ==
    /\ DOMAIN assignments = DOMAIN kinds
    /\ \A k \in DOMAIN kinds :
          /\ Len(assignments[k]) = row_count
          /\ CountRows(kinds[k].counts) = row_count
          /\ kinds[k].counts = GroupCounts(assignments[k])
    /\ Returned("remove") =>
          /\ Size(assignments) = Size(pre.assignments) - 1
          /\ \A k \in DOMAIN assignments :
                assignments[k] =
                    pre.assignments[IF k = call.a
                                    THEN Size(pre.kinds) - 1 ELSE k]
    /\ Returned("add") =>
          /\ Size(assignments) = Size(pre.assignments) + 1
          /\ \A k \in DOMAIN pre.assignments :
                assignments[k] = pre.assignments[k]

\* a removal that relocated an occupied kind whose entry differs from the
\* removed kind's
C10_Witness ==
    /\ Returned("remove")
    /\ call.a < Size(kinds)
    /\ kinds[call.a].featureids # {}
    /\ pre.assignments[call.a] # assignments[call.a]

\* C11: after the destructor, run from any state the kernel can be in, no
\* kind is empty, there are as many kinds as there were occupied kinds, every
\* feature is owned by a kind that owns the features its kind owned before,
\* and the map and the owned sets agree both ways.
C11_DestructorLeavesOccupied ==
    (pc = "destroyed" /\ call.op = "dtor") =>
        /\ EmptyKinds(kinds) = {}
        /\ Size(kinds) = Cardinality(OccupiedKinds(pre.kinds))
        /\ \A f \in Features :
              /\ featureid_to_kindid[f] \in DOMAIN kinds
              /\ kinds[featureid_to_kindid[f]].featureids =
                     pre.kinds[pre.featureid_to_kindid[f]].featureids
        /\ \A k \in DOMAIN kinds : \A f \in kinds[k].featureids :
              featureid_to_kindid[f] = k

\* a destructor that found a reservoir of two kinds behind two occupied kinds
C11_Witness ==
    /\ pc = "destroyed"
    /\ call.op = "dtor"
    /\ Size(kinds) = 2
    /\ Size(pre.kinds) = 4

\* C12: init_featureless_kinds(n) called a second time directly after a first
\* call with the same n leaves the number of kinds, the map, and every
\* occupied kind's index and owned set as the first call left them.
C12_InitIdempotent ==
    Returned("init_again") =>
        /\ Size(kinds) = Size(pre.kinds)
        /\ featureid_to_kindid = pre.featureid_to_kindid
        /\ OccupiedKinds(kinds) = OccupiedKinds(pre.kinds)
        /\ \A k \in OccupiedKinds(pre.kinds) :
              kinds[k].featureids = pre.kinds[k].featureids

\* a second call that rebuilt a reservoir of two kinds behind two occupied
\* kinds and drew other assignment vectors for it
C12_Witness ==
    /\ Returned("init_again")
    /\ call.a = 2
    /\ Cardinality(OccupiedKinds(kinds)) = 2
    /\ assignments # pre.assignments

\* C13: within one try_run the scoring and the apply phase do not overlap:
\* while the proposer scores, the Partition is as try_run found it and only
\* the proposer's mirror and new_kindids are written; every scoring task has
\* finished when the apply loop runs; and at the start of the apply loop
\* the Partition's map is the snapshot old_kindids.
C13_ScoreThenApply ==
    (pc = "running" /\ step.op = "try_run") =>
        /\ step.at = "score" =>
              /\ Current = pre
              /\ old_kindids = pre.featureid_to_kindid
              /\ \A f \in Features \ step.pending :
                    step.mirror[f] = pre.featureid_to_kindid[f]
        /\ step.at # "score" => step.pending = {}
        /\ Current # pre => step.pending = {}
        /\ (step.at = "apply" /\ step.i = 0) =>
              /\ featureid_to_kindid = old_kindids
              /\ Current = pre

\* the apply loop is about to start on a proposal that changes a feature,
\* after the scoring tasks have all run
C13_Witness ==
    /\ pc = "running"
    /\ step.at = "apply"
    /\ step.i = 0
    /\ new_kindids # old_kindids
    /\ \A f \in Features : step.mirror[f] = featureid_to_kindid[f]

\* C14: the removal loop scans downwards, and with swap-with-last removal
\* that order skips nothing: whenever the loop is about to visit index i,
\* i is an index of the store and every kind above i owns a feature, and
\* when the loop is over no kind is empty.  (A loop over the same indices
\* in ascending order moves an unvisited last kind below the loop variable
\* and can leave it, empty, in the store.)
C14_DescendingScanSkipsNothing ==
    (pc = "running" /\ step.at = "scan") =>
        IF step.i <= Size(pre.kinds)
        THEN /\ ScanIndex \in DOMAIN kinds
             /\ \A k \in DOMAIN kinds :
                   k > ScanIndex => kinds[k].featureids # {}
        ELSE EmptyKinds(kinds) = {}

\* the loop is over on a store that had an empty kind at index 0, an empty
\* kind at the last index, and occupied kinds between them
C14_Witness ==
    /\ pc = "running"
    /\ step.at = "scan"
    /\ step.i > Size(pre.kinds)
    /\ Size(pre.kinds) >= 3
    /\ pre.kinds[0].featureids = {}
    /\ pre.kinds[Size(pre.kinds) - 1].featureids = {}
    /\ EmptyKinds(kinds) = {}

\* C15: move_feature_to_kind(f, d) changes f's map entry and the owned sets
\* of f's source kind and of kind d, and nothing else: the number of kinds,
\* the other map entries, the other kinds and the row assignment table are
\* as before, so every kind index that was valid before the move is valid
\* after it.
C15_MoveFrame ==
    Returned("move") =>
        LET f == call.a
            d == call.b
            source == pre.featureid_to_kindid[f]
        IN /\ DOMAIN kinds = DOMAIN pre.kinds
           /\ featureid_to_kindid =
                 [pre.featureid_to_kindid EXCEPT ![f] = d]
           /\ kinds[source].featureids = pre.kinds[source].featureids \ {f}
           /\ kinds[d].featureids = pre.kinds[d].featureids \cup {f}
           /\ \A k \in DOMAIN kinds :
                 /\ k \notin {source, d} => kinds[k] = pre.kinds[k]
                 /\ kinds[k].counts = pre.kinds[k].counts
           /\ assignments = pre.assignments

\* a move of a kind's only feature into an empty kind, with a third kind
\* looking on
C15_Witness ==
    /\ Returned("move")
    /\ Size(kinds) >= 3
    /\ kinds[pre.featureid_to_kindid[call.a]].featureids = {}
    /\ pre.kinds[call.b].featureids = {}

\* C16: the precondition of move_feature_to_kind never fails inside try_run:
\* try_run is not aborted, and throughout the apply loop the features
\* already visited are where new_kindids puts them and all others, the
\* one about to be moved included, are still where old_kindids has them.
C16_MovePreconditionHolds ==
    /\ ~(pc = "aborted" /\ call.op = "try_run")
    /\ (pc = "running" /\ step.at = "apply") =>
          \A f \in Features :
              featureid_to_kindid[f] =
                  IF f < step.i THEN new_kindids[f] ELSE old_kindids[f]

\* the loop is about to move a feature after it has moved an earlier one
\* into the kind this feature is in
C16_Witness ==
    /\ pc = "running"
    /\ step.at = "apply"
    /\ step.i \in Features
    /\ new_kindids[step.i] # old_kindids[step.i]
    /\ \E f \in Features :
          /\ f < step.i
          /\ new_kindids[f] # old_kindids[f]
          /\ new_kindids[f] = old_kindids[step.i]

\* C17: after every try_run the number of occupied kinds is the number
\* before the call plus birth_count minus death_count, the number of kinds
\* is that number plus empty_kind_count, and birth_count is at most
\* empty_kind_count.
C17_OccupiedCountBalance ==
    Returned("try_run") =>
        /\ Cardinality(OccupiedKinds(kinds)) =
              Cardinality(OccupiedKinds(pre.kinds)) + birth_count - death_count
        /\ Size(kinds) = Cardinality(OccupiedKinds(kinds)) + empty_kind_count
        /\ birth_count <= empty_kind_count

\* a try_run that used the whole reservoir of two kinds and emptied a kind
C17_Witness ==
    /\ Returned("try_run")
    /\ empty_kind_count = 2
    /\ birth_count = 2
    /\ death_count = 1

\* after construction and after every try_run the occupied kinds are at
\* indices 0 .. m-1 and the empty_kind_count empty kinds at the indices
\* from m upwards
EmptyKindsAreSuffix ==
    pc \in {"returned", "ready"} =>
        \E m \in 0 .. Size(kinds) :
            /\ OccupiedKinds(kinds) = 0 .. (m - 1)
            /\ EmptyKinds(kinds) = m .. (m + empty_kind_count - 1)

\* C18 as stated: the empty kinds form a suffix after construction and
\* after every try_run, so that the removal phase of a try_run whose moves
\* emptied no kind (death_count = 0) renumbers no occupied kind: every
\* feature ends at the index new_kindids gave it.
C18_AsStated ==
    /\ EmptyKindsAreSuffix
    /\ (Returned("try_run") /\ death_count = 0) =>
          featureid_to_kindid = new_kindids

\* C18, amended: the empty kinds form a suffix after construction and after
\* every try_run, so that the removal phase of a try_run whose moves left
\* every empty kind above every occupied kind renumbers no occupied kind.
C18_SuffixAmended ==
    /\ EmptyKindsAreSuffix
    /\ (/\ Returned("try_run")
        /\ \A k \in Image(new_kindids) :
              \A e \in DOMAIN pre.kinds \ Image(new_kindids) : k < e) =>
          featureid_to_kindid = new_kindids

\* a try_run that moved a feature into the first reservoir kind and emptied
\* no kind
C18_Witness ==
    /\ Returned("try_run")
    /\ empty_kind_count = 2
    /\ birth_count = 1
    /\ death_count = 0
    /\ featureid_to_kindid = new_kindids

\* C19: whenever add_featureless_kind copies the new kind's clustering
\* model instead of sampling it (no clustering hyperprior), the kind it
\* copies from is kind 0, and kind 0 at that moment owns a feature and is
\* not the kind just appended: it was in the store before the call.
C19_FallbackReadsOccupiedKind ==
    (pc = "running" /\ step.at = "add" /\ step.source # -1) =>
        /\ step.source = 0
        /\ kinds[step.source].featureids # {}
        /\ step.source < Size(kinds) - 1

\* the constructor's second add_featureless_kind copies from kind 0 on a
\* store whose kind 0 was empty when the constructor was entered
C19_Witness ==
    /\ pc = "running"
    /\ step.at = "add"
    /\ step.op = "ctor"
    /\ step.i = 2
    /\ step.source = 0
    /\ pre.kinds[0].featureids = {}

\* C20: a stream written by a sequence of write_stream calls is read back
\* by successive try_read_stream calls as the same records in the same
\* order: every read that returns true appends the next record written and
\* raises position() by exactly 1; a read returns false only past the last
\* record and leaves position() as it was; no read fails its assertion.  So
\* when the loop of protobuf_stream_load ends, it holds exactly the records
\* given to protobuf_stream_dump.
C20_StreamRoundTrip ==
    /\ stream.state # "aborted"
    /\ stream.state = "reading" =>
          /\ stream.position = Len(stream.got)
          /\ stream.position <= Len(stream.sent)
          /\ stream.got = SubSeq(stream.sent, 1, stream.position)
          /\ stream.ret = "true" => stream.position = stream.before + 1
          /\ stream.ret = "false" =>
                /\ stream.position = stream.before
                /\ stream.position = Len(stream.sent)
                /\ stream.got = stream.sent

\* the read past the last record, of a stream of an empty record followed
\* by a longer one
C20_Witness ==
    /\ stream.state = "reading"
    /\ stream.ret = "false"
    /\ Len(stream.sent) = 2
    /\ stream.sent[1] = <<>>
    /\ Len(stream.sent[2]) = 2
    /\ stream.got = stream.sent

\* set_position(t) on a file of N records: with t <= N it ends with
\* position() = t, having reopened the file exactly when t was below the
\* position it found; with t > N it fails fatally
SeekEndsAtTarget ==
    stream.op = "seek" =>
        IF stream.target <= Len(stream.sent)
        THEN /\ stream.state = "reading"
             /\ stream.position = stream.target
             /\ stream.reopened = (stream.target < stream.before)
        ELSE stream.state = "aborted"

\* cyclic_read_stream on a file of N records: before the end it returns the
\* next record; at the end it reopens and returns record 0, leaving
\* position() = 1; it fails fatally exactly when the file holds no record
CyclicReadWraps ==
    stream.op = "cyclic" =>
        /\ stream.state = "aborted" <=> Len(stream.sent) = 0
        /\ stream.state = "reading" =>
              /\ stream.ret = "true"
              /\ IF stream.before = Len(stream.sent)
                 THEN /\ stream.position = 1
                      /\ stream.got = <<stream.sent[1]>>
                      /\ stream.reopened
                 ELSE /\ stream.position = stream.before + 1
                      /\ stream.got = <<stream.sent[stream.before + 1]>>
                      /\ ~stream.reopened

\* C21 as stated: for any interleaving of reads and seeks on a file of N
\* records, set_position(t) with t <= N ends at position t (reopening when
\* t is below the current position) and the next try_read_stream returns
\* record t; with t > N it fails fatally; cyclic_read_stream at the end
\* wraps to record 0 and fails only on a file without records.
C21_AsStated ==
    /\ SeekEndsAtTarget
    /\ CyclicReadWraps
    /\ (stream.op = "read" /\ stream.prev = "seek") =>
          /\ stream.state = "reading"
          /\ stream.ret = "true"
          /\ stream.position = stream.target + 1
          /\ stream.target < Len(stream.sent) =>
                stream.got = <<stream.sent[stream.target + 1]>>

\* C21, amended: as stated, except that the try_read_stream after
\* set_position(t) returns record t when t < N, and returns false with
\* position() still N when t = N.
C21_SeekAmended ==
    /\ SeekEndsAtTarget
    /\ CyclicReadWraps
    /\ (stream.op = "read" /\ stream.prev = "seek") =>
          /\ stream.state = "reading"
          /\ IF stream.target < Len(stream.sent)
             THEN /\ stream.ret = "true"
                  /\ stream.position = stream.target + 1
                  /\ stream.got = <<stream.sent[stream.target + 1]>>
             ELSE /\ stream.ret = "false"
                  /\ stream.position = Len(stream.sent)
                  /\ stream.got = <<>>

\* a read that follows set_position(2) on a file of two records
C21_Witness ==
    /\ stream.state = "reading"
    /\ stream.op = "read"
    /\ stream.prev = "seek"
    /\ stream.target = 2
    /\ Len(stream.sent) = 2
    /\ stream.ret = "false"
    /\ stream.position = 2

====
